---- MODULE Spec2Model ----
(***************************************************************************)
(* AeroSense: conversation persistence and translation synchronisation.    *)
(*                                                                         *)
(* The chat view (AppContent + MessageItem), the Sidebar and the           *)
(* localStorage-backed conversation store are modelled as one state        *)
(* machine.  Every event handler is one action; the React render that      *)
(* follows a state update and the effects it triggers (MessageItem         *)
(* translation effect, AppContent auto-save effect, the chats-updated      *)
(* event reloading the Sidebar) belong to the action of that handler.      *)
(*                                                                         *)
(* Texts are sequences of character codes; <<>> is the empty string.       *)
(* Message ids derived from Date.now() are 10*now + k, the model's clock   *)
(* counting instants that lie more than 2 ms apart.                        *)
(***************************************************************************)
EXTENDS Integers, Sequences, FiniteSets, Bags, TLC

VARIABLES
    language,             \* LanguageContext: selected language
    messages,             \* AppContent: messages state
    loading,              \* AppContent: a handleSendMessage is in flight
    translatingRef,       \* AppContent: ids marked in flight (on-demand)
    translatingCountRef,  \* AppContent: outstanding on-demand counter
    tasks,                \* bag of running startWhenAllowed invocations
    batches,              \* bag of running batch flows of the language effect
    storage,              \* localStorage['aerosense_chats_v1'], decoded
    chats,                \* Sidebar: chats state (in-memory copy)
    sbLoops,              \* bag of running Sidebar translation loops
    now,                  \* Date.now()
    call,                 \* the last call of a chatStorage function by a direct caller
    event                 \* the 'aerosense:chats-updated' event dispatched in the last step

vars == <<language, messages, loading, translatingRef, translatingCountRef,
          tasks, batches, storage, chats, sbLoops, now, call, event>>

viewVars == <<language, messages, loading, translatingRef,
              translatingCountRef, tasks, batches>>

\* ---------------------------------------------------------------- bounds
MaxClock == 2        \* user events happen at the instants up to MaxClock
SchedEvents == 3     \* user events left to the conversation of InitSched
MaxMsgs == 4         \* messages appended by the send flow stop at this length
StoreClock == 1      \* direct calls happen at the instants 0..StoreClock
MaxChats == 2        \* direct callers create conversations up to this many
NSched == 3          \* assistant messages of the conversation loaded in InitSched
BatchEvents == 1     \* user events left to the conversation of InitBatch
MaxTexts == 2        \* texts handed to a direct call of batchTranslate

\* ------------------------------------------------------ program constants
MAX_CONCURRENT_TRANSLATIONS == 3
BATCH == 8
TITLE_LEN == 50
SNIPPET_LEN == 70

Langs == {"en-US", "ja-JP"}
DEFAULT_LANGUAGE == "en-US"

Empty == <<>>
Ellipsis == <<0, 0, 0>>

\* ----------------------------------------------------------------- texts
\* t(key): the UI string of the selected language
T(lang, key) ==
    CASE key = "systemGreeting" -> IF lang = "ja-JP" THEN <<12>> ELSE <<11>>
      [] key = "chatCleared"    -> IF lang = "ja-JP" THEN <<14>> ELSE <<13>>
      [] key = "errorPrefix"    -> IF lang = "ja-JP" THEN <<16>> ELSE <<15>>
      [] OTHER                  -> IF lang = "ja-JP" THEN <<18>> ELSE <<17>>

UserTexts == {<<1>>, <<2>>}          \* what the user types
ReplyText(lang) == IF lang = "ja-JP" THEN <<22>> ELSE <<21>>
TextResults == {<<31>>}              \* data.text of a translateText response
BatchResultVals == {<<32>>}          \* entries of a batchTranslate response

\* -------------------------------------------------------------- messages
NoTranslations == [l \in {} |-> Empty]

Msg(id, type, original, translations) ==
    [id |-> id, type |-> type, original |-> original,
     translations |-> translations]

\* m.translations && m.translations[language]  (truthiness of the entry)
HasTranslation(m, lang) ==
    /\ lang \in DOMAIN m.translations
    /\ m.translations[lang] # Empty

\* { ...m, translations: { ...(m.translations || {}), [language]: v } }
SetTranslation(m, lang, v) ==
    [m EXCEPT !.translations = (lang :> v) @@ m.translations]

Ids(ms) == {ms[i].id : i \in 1..Len(ms)}

SeqMap(Op(_), s) == [i \in 1..Len(s) |-> Op(s[i])]

\* getMessageText: m.translations?.[language] ?? m.original ?? ''
getMessageText(m, lang) ==
    IF lang \in DOMAIN m.translations THEN m.translations[lang]
    ELSE m.original

\* ------------------------------------------------------ on-demand flow
Sched(cnt, ref, tk) == [cnt |-> cnt, ref |-> ref, tasks |-> tk]

Task(id, lang, text, st) == [id |-> id, lang |-> lang, text |-> text, st |-> st]

\* startWhenAllowed with the limiter off by one (> for >=)
startWhenAllowed_OffByOne(m, lang, S) ==
    IF S.cnt > MAX_CONCURRENT_TRANSLATIONS
    THEN Sched(S.cnt, S.ref,
               S.tasks (+) SetToBag({Task(m.id, lang, m.original, "wait")}))
    ELSE Sched(S.cnt + 1, S.ref \cup {m.id},
               S.tasks (+) SetToBag({Task(m.id, lang, m.original, "pend")}))

\* startWhenAllowed up to its first suspension: either the polling wait
\* (counter at the limit) or the translateText call
startWhenAllowed(m, lang, S) ==
    IF S.cnt >= MAX_CONCURRENT_TRANSLATIONS
    THEN Sched(S.cnt, S.ref,
               S.tasks (+) SetToBag({Task(m.id, lang, m.original, "wait")}))
    ELSE Sched(S.cnt + 1, S.ref \cup {m.id},
               S.tasks (+) SetToBag({Task(m.id, lang, m.original, "pend")}))

ensureTranslation(m, lang, S) ==
    IF m.original = Empty THEN S
    ELSE IF HasTranslation(m, lang) THEN S
    ELSE IF m.id \in S.ref THEN S
    ELSE startWhenAllowed(m, lang, S)

\* the effect without the test of message.type
MessageItemEffect_AnyType(m, lang, S) ==
    IF ~HasTranslation(m, lang) THEN ensureTranslation(m, lang, S) ELSE S

\* the effect of one MessageItem
MessageItemEffect(m, lang, S) ==
    IF m.type \in {"assistant", "system"} /\ ~HasTranslation(m, lang)
    THEN ensureTranslation(m, lang, S)
    ELSE S

\* the effects of the MessageItems in ms, in render order
RECURSIVE RunEffects(_, _, _)
RunEffects(ms, lang, S) ==
    IF ms = <<>> THEN S
    ELSE RunEffects(Tail(ms), lang, MessageItemEffect(Head(ms), lang, S))

\* ------------------------------------------------------------- the store
UNTITLED_CHAT == <<90>>     \* 'Untitled Chat'
EMPTY_CHAT == <<91>>        \* 'Empty chat'

Min(a, b) == IF a < b THEN a ELSE b

\* text.substring(0, n) + (text.length > n ? '...' : '')
Cut(text, n) ==
    SubSeq(text, 1, Min(Len(text), n)) \o (IF Len(text) > n THEN Ellipsis ELSE <<>>)

IsUser(m) == m.type = "user"
IsAssistant(m) == m.type = "assistant"

HasUser(msgs) == \E i \in 1..Len(msgs) : IsUser(msgs[i])

getChatTitle(msgs) ==
    LET userMsgs == SelectSeq(msgs, IsUser)
    IN  IF userMsgs = <<>> THEN UNTITLED_CHAT
        ELSE Cut(userMsgs[1].original, TITLE_LEN)

getChatSnippet(msgs) ==
    LET a == SelectSeq(msgs, IsAssistant)
        u == SelectSeq(msgs, IsUser)
    IN  IF a # <<>> THEN Cut(a[1].original, SNIPPET_LEN)
        ELSE IF u # <<>> THEN Cut(u[1].original, SNIPPET_LEN)
        ELSE EMPTY_CHAT

\* chats.findIndex(c => c.title === title): first match, 0 when there is none
FindByTitle(cs, title) ==
    IF \E i \in 1..Len(cs) : cs[i].title = title
    THEN CHOOSE i \in 1..Len(cs) :
            /\ cs[i].title = title
            /\ \A j \in 1..(i - 1) : cs[j].title # title
    ELSE 0

FindById(cs, id) ==
    IF \E i \in 1..Len(cs) : cs[i].id = id
    THEN CHOOSE i \in 1..Len(cs) :
            /\ cs[i].id = id
            /\ \A j \in 1..(i - 1) : cs[j].id # id
    ELSE 0

InvalidDate == -999999

\* JSON.stringify of a Date: its ISO string, null for an Invalid Date
DateToJSON(d) ==
    IF d = InvalidDate THEN [k |-> "null", v |-> 0] ELSE [k |-> "string", v |-> d]

\* typeof x === 'string' ? new Date(x) : new Date()
DateFromJSON(x, t) == IF x.k = "string" THEN x.v ELSE t

\* JSON.stringify(chats): the value written to localStorage
Stringify(cs) ==
    LET Enc(c) == [c EXCEPT !.createdAt = DateToJSON(c.createdAt),
                            !.updatedAt = DateToJSON(c.updatedAt)]
    IN  SeqMap(Enc, cs)

\* A parsed JSON value that is not an object is [k |-> its type, v |-> its
\* value]; an object is the record of its properties.
IsJSONObject(x) == "k" \notin DOMAIN x

JSONNull == [k |-> "null", v |-> 0]

IsJSONNull(x) == ~IsJSONObject(x) /\ x.k = "null"

\* String('') : the id a record without id gets
EmptyId == -2

\* x[f] ?? dflt, for x other than null (a property of a number or a string
\* is undefined)
Get(x, f, dflt) ==
    IF IsJSONObject(x) /\ f \in DOMAIN x THEN x[f] ELSE dflt

\* the callback without the test of the stored type
DecodeMessage_KeepsType(m) ==
    Msg(Get(m, "id", EmptyId), Get(m, "type", "system"),
        Get(m, "original", Empty), Get(m, "translations", NoTranslations))

\* timestamp of the callback of messagesRaw.map
DecodeTimestamp(m, t) == DateFromJSON(Get(m, "timestamp", JSONNull), t)

\* the callback of messagesRaw.map
DecodeMessage(m) ==
    LET type == Get(m, "type", "system")
    IN  Msg(Get(m, "id", EmptyId),
            IF type \in {"user", "assistant", "system"} THEN type ELSE "system",
            Get(m, "original", Empty),
            Get(m, "translations", NoTranslations))

\* the callback of parsed.map
DecodeChat(c, t) ==
    [id        |-> Get(c, "id", EmptyId),
     title     |-> Get(c, "title", Empty),
     snippet   |-> Get(c, "snippet", Empty),
     messages  |-> SeqMap(DecodeMessage, Get(c, "messages", <<>>)),
     createdAt |-> DateFromJSON(Get(c, "createdAt", JSONNull), t),
     updatedAt |-> DateFromJSON(Get(c, "updatedAt", JSONNull), t),
     meta      |-> LET meta == Get(c, "meta", JSONNull)
                   IN  IF IsJSONObject(meta) THEN meta ELSE [version |-> 1]]

\* reading a property of null throws a TypeError: c.createdAt for a null
\* entry, m.weatherData for a null element of messages
DecodeThrows(c) ==
    \/ IsJSONNull(c)
    \/ \E i \in 1..Len(Get(c, "messages", <<>>)) : IsJSONNull(c.messages[i])

\* loadChatsFromStorage at time t; st is the stored value (an absent item
\* as the empty array); the catch clause returns []
loadChatsFromStorage(st, t) ==
    LET Dec(c) == DecodeChat(c, t)
    IN  IF \E i \in 1..Len(st) : DecodeThrows(st[i]) THEN <<>>
        ELSE SeqMap(Dec, st)

\* ------------------------------------------------------- the size policy
MAX_MESSAGE_SIZE == 500000

\* s.length of a text; an element -n stands for a run of n characters, any
\* other element for one character (BagCardinality adds up the values of a
\* function)
StringLength(s) ==
    BagCardinality([k \in 1..Len(s) |-> IF s[k] < 0 THEN -s[k] ELSE 1])

\* the length of the translations object of a message as JSON.stringify
\* writes it: {"en-US":"...","ja-JP":"..."}, without the braces
EntriesLength(translations) ==
    BagCardinality([l \in DOMAIN translations |->
                       Len(l) + 5 + StringLength(translations[l])])
      + (IF DOMAIN translations = {} THEN 0 ELSE Cardinality(DOMAIN translations) - 1)

\* the length of one message as JSON.stringify writes it:
\* {"id":"..","type":"..","original":"..","translations":{..},"timestamp":".."}
\* with the id '1' of the greeting or a Date.now() string, and an ISO date
MessageLength(m) ==
    7 + (IF m.id = 1 THEN 1 ELSE 13) + 10 + Len(m.type) + 14
      + StringLength(m.original) + 18 + EntriesLength(m.translations) + 15 + 24 + 2

\* JSON.stringify(messages).length
messageSize(msgs) ==
    2 + BagCardinality([k \in 1..Len(msgs) |-> MessageLength(msgs[k])])
      + (IF msgs = <<>> THEN 0 ELSE Len(msgs) - 1)

\* meta with isTruncated = messageSize >= MAX_MESSAGE_SIZE
Meta_AtCeiling(msgs) ==
    [version |-> 1, truncated |-> messageSize(msgs) >= MAX_MESSAGE_SIZE]

\* meta of chatRecord (device left out)
Meta(msgs) == [version |-> 1, truncated |-> messageSize(msgs) > MAX_MESSAGE_SIZE]

\* a call's outcome: the stored value afterwards and the value returned
Outcome(st, ret) == [storage |-> st, ret |-> ret]

\* autoSaveChat without the lookup by title: every save prepends a record
autoSaveChat_NoDedup(msgs, st, t) ==
    IF ~HasUser(msgs) THEN Outcome(st, loadChatsFromStorage(st, t))
    ELSE
      LET cs == loadChatsFromStorage(st, t)
          chatRecord ==
            [id |-> t, title |-> getChatTitle(msgs), snippet |-> getChatSnippet(msgs),
             messages |-> msgs, meta |-> Meta(msgs),
             createdAt |-> t, updatedAt |-> t]
      IN  Outcome(Stringify(<<chatRecord>> \o cs), <<chatRecord>> \o cs)

\* autoSaveChat without the early return for lists that hold no user message
autoSaveChat_NoUserCheck(msgs, st, t) ==
    LET cs == loadChatsFromStorage(st, t)
        chatTitle == getChatTitle(msgs)
        existingIndex == FindByTitle(cs, chatTitle)
        chatRecord ==
          [id        |-> IF existingIndex > 0 THEN cs[existingIndex].id ELSE t,
           title     |-> chatTitle,
           snippet   |-> getChatSnippet(msgs),
           messages  |-> msgs,
           meta      |-> Meta(msgs),
           createdAt |-> IF existingIndex > 0 THEN cs[existingIndex].createdAt ELSE t,
           updatedAt |-> t]
        updated == IF existingIndex > 0
                   THEN [cs EXCEPT ![existingIndex] = chatRecord]
                   ELSE <<chatRecord>> \o cs
    IN  Outcome(Stringify(updated), updated)

\* autoSaveChat placing a new conversation at the end of the list
autoSaveChat_AtEnd(msgs, st, t) ==
    IF ~HasUser(msgs) THEN Outcome(st, loadChatsFromStorage(st, t))
    ELSE
      LET cs == loadChatsFromStorage(st, t)
          chatTitle == getChatTitle(msgs)
          existingIndex == FindByTitle(cs, chatTitle)
          chatRecord ==
            [id        |-> IF existingIndex > 0 THEN cs[existingIndex].id ELSE t,
             title     |-> chatTitle,
             snippet   |-> getChatSnippet(msgs),
             messages  |-> msgs,
             meta      |-> Meta(msgs),
             createdAt |-> IF existingIndex > 0 THEN cs[existingIndex].createdAt ELSE t,
             updatedAt |-> t]
          updated == IF existingIndex > 0
                     THEN [cs EXCEPT ![existingIndex] = chatRecord]
                     ELSE cs \o <<chatRecord>>
      IN  Outcome(Stringify(updated), updated)

\* autoSaveChat(messages) at time t on the stored value st
autoSaveChat(msgs, st, t) ==
    IF ~HasUser(msgs) THEN Outcome(st, loadChatsFromStorage(st, t))
    ELSE
      LET cs == loadChatsFromStorage(st, t)
          chatTitle == getChatTitle(msgs)
          existingIndex == FindByTitle(cs, chatTitle)
          chatRecord ==
            [id        |-> IF existingIndex > 0 THEN cs[existingIndex].id ELSE t,
             title     |-> chatTitle,
             snippet   |-> getChatSnippet(msgs),
             messages  |-> msgs,
             meta      |-> Meta(msgs),
             createdAt |-> IF existingIndex > 0 THEN cs[existingIndex].createdAt ELSE t,
             updatedAt |-> t]
          updated == IF existingIndex > 0
                     THEN [cs EXCEPT ![existingIndex] = chatRecord]
                     ELSE <<chatRecord>> \o cs
      IN  Outcome(Stringify(updated), updated)

\* deleteChat removing the first conversation of that id only
deleteChat_FirstOnly(chatId, st, t) ==
    LET cs == loadChatsFromStorage(st, t)
        k == FindById(cs, chatId)
        updated == IF k = 0 THEN cs
                   ELSE SubSeq(cs, 1, k - 1) \o SubSeq(cs, k + 1, Len(cs))
    IN  Outcome(Stringify(updated), updated)

\* deleteChat(chatId)
deleteChat(chatId, st, t) ==
    LET Keep(c) == c.id # chatId
        updated == SelectSeq(loadChatsFromStorage(st, t), Keep)
    IN  Outcome(Stringify(updated), updated)

\* deleteAllChats keeping the newest conversation
deleteAllChats_KeepsHead(st) ==
    Outcome(SubSeq(st, 1, Min(1, Len(st))), <<>>)

\* deleteAllChats(): removeItem, after which the load yields []
deleteAllChats(st) == Outcome(<<>>, <<>>)

\* renameChat taking the new title as the snippet as well
renameChat_SetsSnippet(chatId, newTitle, st, t) ==
    LET cs == loadChatsFromStorage(st, t)
        index == FindById(cs, chatId)
        updated == [cs EXCEPT ![index] = [@ EXCEPT !.title = newTitle,
                                                   !.snippet = newTitle,
                                                   !.updatedAt = t]]
    IN  IF index = 0 THEN Outcome(st, <<>>)
        ELSE Outcome(Stringify(updated), <<updated[index]>>)

\* renameChat(chatId, newTitle); ret is <<record>>, or <<>> for null
renameChat(chatId, newTitle, st, t) ==
    LET cs == loadChatsFromStorage(st, t)
        index == FindById(cs, chatId)
        updated == [cs EXCEPT ![index] = [@ EXCEPT !.title = newTitle, !.updatedAt = t]]
    IN  IF index = 0 THEN Outcome(st, <<>>)
        ELSE Outcome(Stringify(updated), <<updated[index]>>)

\* condition of the AppContent auto-save effect
AutoSaves(msgs) == Len(msgs) > 1 /\ HasUser(msgs)

\* ------------------------------------------------------------ the view
\* new CustomEvent('aerosense:chats-updated', { detail: { count } })
ChatsUpdated(count) == [type |-> "aerosense:chats-updated", count |-> count]

\* no event was dispatched
NoEvent == [type |-> "none", count |-> 0]

CurSched == Sched(translatingCountRef, translatingRef, tasks)

WithIds(ms, ids) ==
    LET In(m) == m.id \in ids
    IN  SelectSeq(ms, In)

\* The render after setMessages(msgs1): the effects of the MessageItems in
\* effMsgs (mounted, or given a new message object), then the auto-save
\* effect with its chats-updated event, handled by the Sidebar's load().
Commit(msgs1, effMsgs, lang, S0, t) ==
    LET S1 == RunEffects(effMsgs, lang, S0)
    IN  /\ messages' = msgs1
        /\ translatingCountRef' = S1.cnt
        /\ translatingRef' = S1.ref
        /\ tasks' = S1.tasks
        /\ IF AutoSaves(msgs1)
           THEN LET updated == autoSaveChat(msgs1, storage, t)
                IN  /\ storage' = updated.storage
                    /\ event' = ChatsUpdated(Len(updated.ret))
                    /\ chats' = loadChatsFromStorage(storage', t)
           ELSE /\ event' = NoEvent
                /\ UNCHANGED <<storage, chats>>

\* a waiter's 150 ms timer fires and finds a free slot
StartAfterWait(tk) ==
    /\ tk \in BagToSet(tasks)
    /\ tk.st = "wait"
    /\ translatingCountRef < MAX_CONCURRENT_TRANSLATIONS
    /\ translatingCountRef' = translatingCountRef + 1
    /\ translatingRef' = translatingRef \cup {tk.id}
    /\ tasks' = (tasks (-) SetToBag({tk})) (+) SetToBag({[tk EXCEPT !.st = "pend"]})
    /\ event' = NoEvent
    /\ UNCHANGED <<call, language, messages, loading, batches, storage, chats, sbLoops, now>>

\* the success write storing the result as the message's original as well
OnDemandWrite_SetsOriginal(msgs, tk, translated) ==
    LET W(m) == IF m.id = tk.id
                THEN SetTranslation([m EXCEPT !.original = translated], tk.lang, translated)
                ELSE m
    IN  SeqMap(W, msgs)

\* { ...m, translations: {..., [language]: translated} } for m.id === message.id
\* the write keyed by the language selected when the call returns
OnDemandWrite_CurrentLanguage(msgs, tk, translated) ==
    LET W(m) == IF m.id = tk.id THEN SetTranslation(m, language, translated) ELSE m
    IN  SeqMap(W, msgs)

OnDemandWrite(msgs, tk, translated) ==
    LET W(m) == IF m.id = tk.id THEN SetTranslation(m, tk.lang, translated) ELSE m
    IN  SeqMap(W, msgs)

\* translateText of an on-demand invocation resolves with text r
TranslateTextOk(tk, r) ==
    /\ tk \in BagToSet(tasks)
    /\ tk.st = "pend"
    /\ LET msgs1 == OnDemandWrite(messages, tk, r)
           S0 == Sched(translatingCountRef - 1, translatingRef \ {tk.id},
                       tasks (-) SetToBag({tk}))
       IN  Commit(msgs1, WithIds(msgs1, {tk.id}), language, S0, now)
    /\ UNCHANGED <<call, language, loading, batches, sbLoops, now>>

\* the catch branch storing the untranslated text as the translation
TranslateTextFail_CachesOriginal(tk) == TranslateTextOk(tk, tk.text)

\* a rejected translateText whose slot is not given back
TranslateTextFail_KeepsSlot(tk) ==
    /\ tk \in BagToSet(tasks)
    /\ tk.st = "pend"
    /\ translatingRef' = translatingRef \ {tk.id}
    /\ tasks' = tasks (-) SetToBag({tk})
    /\ event' = NoEvent
    /\ UNCHANGED <<call, language, messages, loading, batches, storage, chats,
                   sbLoops, now, translatingCountRef>>

\* translateText of an on-demand invocation rejects
TranslateTextFail(tk) ==
    /\ tk \in BagToSet(tasks)
    /\ tk.st = "pend"
    /\ translatingCountRef' = translatingCountRef - 1
    /\ translatingRef' = translatingRef \ {tk.id}
    /\ tasks' = tasks (-) SetToBag({tk})
    /\ event' = NoEvent
    /\ UNCHANGED <<call, language, messages, loading, batches, storage, chats, sbLoops, now>>

\* ------------------------------------------------------------ batch flow
Item(m) == [id |-> m.id, original |-> m.original]

\* toTranslate of the language effect
ToTranslate(msgs, lang) ==
    LET Need(m) == m.original # Empty /\ ~HasTranslation(m, lang) /\ m.type # "user"
    IN  SeqMap(Item, SelectSeq(msgs, Need))

Flow(lang, items, i) == [lang |-> lang, items |-> items, i |-> i]

\* toTranslate.slice(i, i + BATCH) of a flow
BatchOf(f) == SubSeq(f.items, f.i + 1, Min(f.i + BATCH, Len(f.items)))

\* batch.findIndex(b => b.id === id), 0 when there is none
BatchIndex(batch, id) ==
    IF \E k \in 1..Len(batch) : batch[k].id = id
    THEN CHOOSE k \in 1..Len(batch) :
            /\ batch[k].id = id
            /\ \A j \in 1..(k - 1) : batch[j].id # id
    ELSE 0

\* the merge reading the results from the end of the array
BatchMerge_Reversed(msgs, f, results) ==
    LET batch == BatchOf(f)
        W(m) == IF BatchIndex(batch, m.id) # 0
                THEN SetTranslation(m, f.lang,
                                    results[Len(batch) + 1 - BatchIndex(batch, m.id)])
                ELSE m
    IN  SeqMap(W, msgs)

BatchMerge(msgs, f, results) ==
    LET batch == BatchOf(f)
        W(m) == IF BatchIndex(batch, m.id) # 0
                THEN SetTranslation(m, f.lang, results[BatchIndex(batch, m.id)])
                ELSE m
    IN  SeqMap(W, msgs)

\* the flow after the call for its current group returned
NextFlows(f) ==
    IF f.i + BATCH < Len(f.items)
    THEN (batches (-) SetToBag({f})) (+) SetToBag({Flow(f.lang, f.items, f.i + BATCH)})
    ELSE batches (-) SetToBag({f})

\* batchTranslate of a flow's current group resolves with results
BatchOk(f, results) ==
    /\ f \in BagToSet(batches)
    /\ LET msgs1 == BatchMerge(messages, f, results)
           ids == {BatchOf(f)[k].id : k \in 1..Len(BatchOf(f))}
       IN  Commit(msgs1, WithIds(msgs1, ids), language, CurSched, now)
    /\ batches' = NextFlows(f)
    /\ UNCHANGED <<call, language, loading, sbLoops, now>>

\* the catch placed around the loop: a rejected call ends the flow
BatchFail_EndsFlow(f) ==
    /\ f \in BagToSet(batches)
    /\ batches' = batches (-) SetToBag({f})
    /\ event' = NoEvent
    /\ UNCHANGED <<call, language, messages, loading, translatingRef,
                   translatingCountRef, tasks, storage, chats, sbLoops, now>>

\* batchTranslate of a flow's current group rejects
BatchFail(f) ==
    /\ f \in BagToSet(batches)
    /\ batches' = NextFlows(f)
    /\ event' = NoEvent
    /\ UNCHANGED <<call, language, messages, loading, translatingRef,
                   translatingCountRef, tasks, storage, chats, sbLoops, now>>

\* ------------------------------------------------------------ Sidebar
SbItem(c) ==
    LET firstUser == SelectSeq(c.messages, IsUser)[1]
    IN  [chatId |-> c.id, msgId |-> firstUser.id, text |-> firstUser.original]

\* toTranslate of the Sidebar language effect: first user message per chat
SidebarToTranslate(fresh, lang) ==
    LET Need(c) == /\ HasUser(c.messages)
                   /\ ~HasTranslation(SelectSeq(c.messages, IsUser)[1], lang)
                   /\ SelectSeq(c.messages, IsUser)[1].original # Empty
    IN  SeqMap(SbItem, SelectSeq(fresh, Need))

SbLoop(lang, items, mounted) == [lang |-> lang, items |-> items, mounted |-> mounted]

Unmount(lp) == [lp EXCEPT !.mounted = FALSE]

\* the updater of setChats in the Sidebar translation loop
SidebarMerge(prev, item, lang, translated, t) ==
    LET WM(m) == IF m.id = item.msgId THEN SetTranslation(m, lang, translated) ELSE m
        WC(c) == IF c.id # item.chatId THEN c
                 ELSE [c EXCEPT !.messages = SeqMap(WM, c.messages), !.updatedAt = t]
    IN  SeqMap(WC, prev)

\* the loop after the call for its current item returned
NextLoops(lp) ==
    IF lp.mounted /\ Len(lp.items) > 1
    THEN (sbLoops (-) SetToBag({lp})) (+) SetToBag({SbLoop(lp.lang, Tail(lp.items), TRUE)})
    ELSE sbLoops (-) SetToBag({lp})

\* the loop without the test of mounted after the await
SidebarTranslateOk_NoMountedCheck(lp, r) ==
    /\ lp \in BagToSet(sbLoops)
    /\ sbLoops' = NextLoops(lp)
    /\ chats' = SidebarMerge(chats, Head(lp.items), lp.lang, r, now)
    /\ storage' = Stringify(chats')
    /\ event' = NoEvent
    /\ UNCHANGED <<call, viewVars, now>>

\* translateText of a Sidebar loop resolves with text r
SidebarTranslateOk(lp, r) ==
    /\ lp \in BagToSet(sbLoops)
    /\ sbLoops' = NextLoops(lp)
    /\ IF lp.mounted
       THEN /\ chats' = SidebarMerge(chats, Head(lp.items), lp.lang, r, now)
            /\ storage' = Stringify(chats')
       ELSE UNCHANGED <<chats, storage>>
    /\ event' = NoEvent
    /\ UNCHANGED <<call, viewVars, now>>

\* translateText of a Sidebar loop rejects
SidebarTranslateFail(lp) ==
    /\ lp \in BagToSet(sbLoops)
    /\ sbLoops' = NextLoops(lp)
    /\ event' = NoEvent
    /\ UNCHANGED <<call, viewVars, storage, chats, now>>

\* handleSelectChat -> handleLoadChat: setMessages(chat.messages)
SelectChat(i) ==
    /\ i \in 1..Len(chats)
    /\ now < MaxClock
    /\ now' = now + 1
    /\ Commit(chats[i].messages, chats[i].messages, language, CurSched, now')
    /\ UNCHANGED <<call, language, loading, batches, sbLoops>>

handleDeleteChat(i) ==
    /\ i \in 1..Len(chats)
    /\ now < MaxClock
    /\ now' = now + 1
    /\ chats' = deleteChat(chats[i].id, storage, now').ret
    /\ storage' = deleteChat(chats[i].id, storage, now').storage
    /\ event' = NoEvent
    /\ UNCHANGED <<call, viewVars, sbLoops>>

handleDeleteAll ==
    /\ now < MaxClock
    /\ now' = now + 1
    /\ storage' = deleteAllChats(storage).storage
    /\ chats' = <<>>
    /\ event' = NoEvent
    /\ UNCHANGED <<call, viewVars, sbLoops>>

\* chats.map(chat => chat.id === chatId ? {...chat, title, updatedAt} : chat)
RenameInMemory(cs, chatId, renameText, t) ==
    LET W(c) == IF c.id = chatId THEN [c EXCEPT !.title = renameText, !.updatedAt = t]
                ELSE c
    IN  SeqMap(W, cs)

handleRenameSave(i, renameText) ==
    /\ i \in 1..Len(chats)
    /\ renameText # Empty
    /\ now < MaxClock
    /\ now' = now + 1
    /\ chats' = RenameInMemory(chats, chats[i].id, renameText, now')
    /\ storage' = Stringify(chats')
    /\ event' = NoEvent
    /\ UNCHANGED <<call, viewVars, sbLoops>>

\* -------------------------------------------------------- language switch
\* the greeting update of the AppContent language effect
GreetingUpdate(msgs, lang) ==
    LET W(m) == IF m.id = 1 /\ m.type = "system"
                THEN SetTranslation([m EXCEPT !.original = T(lang, "systemGreeting")],
                                    lang, T(lang, "systemGreeting"))
                ELSE m
    IN  SeqMap(W, msgs)

\* setLanguage(L) and the render it causes: the effects of the Sidebar and
\* of every MessageItem, then the AppContent language effect (greeting
\* update, start of a batch flow) and the render that follows it
SwitchLanguage(L) ==
    /\ L \in Langs
    /\ L # language
    /\ ~loading
    /\ now < MaxClock
    /\ now' = now + 1
    /\ language' = L
    /\ LET fresh == loadChatsFromStorage(storage, now')
           sbItems == SidebarToTranslate(fresh, L)
           S1 == RunEffects(messages, L, CurSched)
           msgs1 == GreetingUpdate(messages, L)
           toTranslate == ToTranslate(msgs1, L)
           S2 == RunEffects(WithIds(msgs1, {1}), L, S1)
       IN  /\ sbLoops' = BagOfAll(Unmount, sbLoops) (+)
                         (IF sbItems # <<>> THEN SetToBag({SbLoop(L, sbItems, TRUE)})
                          ELSE EmptyBag)
           /\ batches' = IF toTranslate # <<>>
                         THEN batches (+) SetToBag({Flow(L, toTranslate, 0)})
                         ELSE batches
           /\ messages' = msgs1
           /\ translatingCountRef' = S2.cnt
           /\ translatingRef' = S2.ref
           /\ tasks' = S2.tasks
           /\ IF AutoSaves(msgs1)
              THEN LET updated == autoSaveChat(msgs1, storage, now')
                   IN  /\ storage' = updated.storage
                       /\ event' = ChatsUpdated(Len(updated.ret))
                       /\ chats' = loadChatsFromStorage(storage', now')
              ELSE /\ storage' = storage
                   /\ event' = NoEvent
                   /\ chats' = fresh
    /\ UNCHANGED <<call, loading>>

\* -------------------------------------------------------------- send flow
\* handleSendMessage up to its first await: the user message is appended
SendUser(text) ==
    /\ ~loading
    /\ now < MaxClock
    /\ Len(messages) + 2 <= MaxMsgs
    /\ text # Empty
    /\ now' = now + 1
    /\ loading' = TRUE
    /\ LET userMessage == Msg(10 * now', "user", text, language :> text)
       IN  Commit(Append(messages, userMessage), <<userMessage>>, language,
                  CurSched, now')
    /\ UNCHANGED <<call, language, batches, sbLoops>>

\* handleSendMessage without a usable city: a system hint is appended
SendNoCity ==
    /\ ~loading
    /\ now < MaxClock
    /\ Len(messages) + 1 <= MaxMsgs
    /\ now' = now + 1
    /\ LET hint == Msg(10 * now' + 1, "system", T(language, "pleaseMentionCityExample"),
                       language :> T(language, "pleaseMentionCityExample"))
       IN  Commit(Append(messages, hint), <<hint>>, language, CurSched, now')
    /\ UNCHANGED <<call, language, loading, batches, sbLoops>>

\* the assistant reply arrives; bilingual: the response parsed as {en, ja}
ReplyOk(bilingual) ==
    /\ loading
    /\ loading' = FALSE
    /\ LET translations ==
             IF bilingual THEN [l \in Langs |-> ReplyText(l)]
             ELSE language :> ReplyText(language)
           assistantMessage == Msg(10 * now + 4, "assistant",
                                   translations[language], translations)
       IN  Commit(Append(messages, assistantMessage), <<assistantMessage>>,
                  language, CurSched, now)
    /\ UNCHANGED <<call, language, batches, sbLoops, now>>

\* the weather or model call fails: a system error message is appended
ReplyError ==
    /\ loading
    /\ loading' = FALSE
    /\ LET errorMessage == Msg(10 * now + 8, "system", T(language, "errorPrefix"),
                               language :> T(language, "errorPrefix"))
       IN  Commit(Append(messages, errorMessage), <<errorMessage>>,
                  language, CurSched, now)
    /\ UNCHANGED <<call, language, batches, sbLoops, now>>

\* clearChat (the Sidebar's "new chat")
clearChat ==
    /\ now < MaxClock
    /\ now' = now + 1
    /\ LET cleared == Msg(10 * now', "system", T(language, "chatCleared"),
                          language :> T(language, "chatCleared"))
       IN  Commit(<<cleared>>, <<cleared>>, language, CurSched, now')
    /\ UNCHANGED <<call, language, loading, batches, sbLoops>>

\* ------------------------------------------------------- specifications
Greeting(lang) ==
    Msg(1, "system", T(lang, "systemGreeting"), lang :> T(lang, "systemGreeting"))

NoCall == [op |-> "none"]

\* ids and dates of the earlier session lie before this session's instants
EarlierId == -1000
EarlierDate == -100

\* a conversation of an earlier session: greeting, one user message and
\* NSched assistant replies that came with the English text only
SchedMessages ==
    <<Greeting("en-US"),
      Msg(EarlierId, "user", <<1>>, [l \in Langs |-> IF l = "en-US" THEN <<1>> ELSE <<3>>])>>
    \o [k \in 1..NSched |-> Msg(EarlierId + 10 * k + 4, "assistant", <<21>>, "en-US" :> <<21>>)]

\* what an earlier session left in the store: nothing, or that conversation
\* with its first three replies
EarlierMessages == SubSeq(SchedMessages, 1, 5)

EarlierStores == {<<>>, autoSaveChat(EarlierMessages, <<>>, EarlierDate).storage}

RenameTexts == {<<2>>}               \* what the user types as a new title

\* the application after mount
Init ==
    /\ language = DEFAULT_LANGUAGE
    /\ messages = <<Greeting(DEFAULT_LANGUAGE)>>
    /\ loading = FALSE
    /\ translatingRef = {}
    /\ translatingCountRef = 0
    /\ tasks = EmptyBag
    /\ batches = EmptyBag
    /\ storage \in EarlierStores
    /\ chats = loadChatsFromStorage(storage, 0)
    /\ sbLoops = EmptyBag
    /\ now = 0
    /\ call = NoCall
    /\ event = NoEvent

\* the application after that conversation was selected in the Sidebar
InitSched ==
    /\ language = "en-US"
    /\ messages = SchedMessages
    /\ loading = FALSE
    /\ translatingRef = {}
    /\ translatingCountRef = 0
    /\ tasks = EmptyBag
    /\ batches = EmptyBag
    /\ storage = autoSaveChat(SchedMessages, <<>>, EarlierDate).storage
    /\ now = MaxClock - SchedEvents
    /\ chats = loadChatsFromStorage(storage, now)
    /\ sbLoops = EmptyBag
    /\ call = NoCall
    /\ event = NoEvent

Scheduler ==
    \/ \E L \in Langs : SwitchLanguage(L)
    \/ \E tk \in BagToSet(tasks) : StartAfterWait(tk)
    \/ \E tk \in BagToSet(tasks) : \E r \in TextResults : TranslateTextOk(tk, r)
    \/ \E tk \in BagToSet(tasks) : TranslateTextFail(tk)
    \/ \E f \in BagToSet(batches) :
          \E results \in [1..Len(BatchOf(f)) -> BatchResultVals] : BatchOk(f, results)
    \/ \E f \in BagToSet(batches) : BatchFail(f)

SpecSched == InitSched /\ [][Scheduler]_vars

\* every outbound translation call returns successfully, and every timer
\* of a waiting startWhenAllowed fires
Completions ==
    \/ \E tk \in BagToSet(tasks) : StartAfterWait(tk)
    \/ \E tk \in BagToSet(tasks) : \E r \in TextResults : TranslateTextOk(tk, r)
    \/ \E f \in BagToSet(batches) :
          \E results \in [1..Len(BatchOf(f)) -> BatchResultVals] : BatchOk(f, results)

SwitchOrComplete ==
    \/ \E L \in Langs : SwitchLanguage(L)
    \/ Completions

SpecLive == InitSched /\ [][SwitchOrComplete]_vars /\ WF_vars(Completions)

\* ---------------------------------------------- the batch of one switch
\* the conversation of the language-switch scenario: greeting, one user
\* message and five assistant replies that came with the English text only
BatchMessages ==
    <<Greeting("en-US"),
      Msg(EarlierId, "user", <<1>>, [l \in Langs |-> IF l = "en-US" THEN <<1>> ELSE <<3>>])>>
    \o [k \in 1..5 |-> Msg(EarlierId + 10 * k + 4, "assistant", <<21>>, "en-US" :> <<21>>)]

\* responses of batchTranslate for n texts: arrays of n strings, each
\* entry different from the entries at the other positions
BatchResults(n) == {[k \in 1..n |-> <<40 + k>>], [k \in 1..n |-> <<50 + k>>]}

\* the application after that conversation was selected in the Sidebar
InitBatch ==
    /\ language = "en-US"
    /\ messages = BatchMessages
    /\ loading = FALSE
    /\ translatingRef = {}
    /\ translatingCountRef = 0
    /\ tasks = EmptyBag
    /\ batches = EmptyBag
    /\ storage = autoSaveChat(BatchMessages, <<>>, EarlierDate).storage
    /\ now = MaxClock - BatchEvents
    /\ chats = loadChatsFromStorage(storage, now)
    /\ sbLoops = EmptyBag
    /\ call = NoCall
    /\ event = NoEvent

SwitchAndBatch ==
    \/ \E L \in Langs : SwitchLanguage(L)
    \/ clearChat
    \/ \E tk \in BagToSet(tasks) : StartAfterWait(tk)
    \/ \E tk \in BagToSet(tasks) : \E r \in TextResults : TranslateTextOk(tk, r)
    \/ \E f \in BagToSet(batches) :
          \E results \in BatchResults(Len(BatchOf(f))) : BatchOk(f, results)

SpecBatch == InitBatch /\ [][SwitchAndBatch]_vars

\* ------------------------------------------- a flow of several groups
\* a conversation with one reply more than a group holds, all of them with
\* the English text only
GroupMessages ==
    <<Greeting("en-US"),
      Msg(EarlierId, "user", <<1>>, [l \in Langs |-> IF l = "en-US" THEN <<1>> ELSE <<3>>])>>
    \o [k \in 1..(BATCH + 1) |->
          Msg(EarlierId + 10 * k + 4, "assistant", <<21>>, "en-US" :> <<21>>)]

\* the application after that conversation was selected in the Sidebar
InitGroups ==
    /\ language = "en-US"
    /\ messages = GroupMessages
    /\ loading = FALSE
    /\ translatingRef = {}
    /\ translatingCountRef = 0
    /\ tasks = EmptyBag
    /\ batches = EmptyBag
    /\ storage = autoSaveChat(GroupMessages, <<>>, EarlierDate).storage
    /\ now = MaxClock - SchedEvents
    /\ chats = loadChatsFromStorage(storage, now)
    /\ sbLoops = EmptyBag
    /\ call = NoCall
    /\ event = NoEvent

\* the batch flows while the on-demand calls started at the switch are
\* still pending
BatchFlows ==
    \/ \E L \in Langs : SwitchLanguage(L)
    \/ \E f \in BagToSet(batches) :
          \E results \in BatchResults(Len(BatchOf(f))) : BatchOk(f, results)
    \/ \E f \in BagToSet(batches) : BatchFail(f)

SpecGroups == InitGroups /\ [][BatchFlows]_vars

\* ------------------------------------------------- responses of any text
\* translateText returns data.text || '': the empty string as well
TextResponses == TextResults \cup {Empty}

Responses ==
    \/ \E tk \in BagToSet(tasks) : StartAfterWait(tk)
    \/ \E tk \in BagToSet(tasks) : \E r \in TextResponses : TranslateTextOk(tk, r)
    \/ \E f \in BagToSet(batches) :
          \E results \in [1..Len(BatchOf(f)) -> BatchResultVals] : BatchOk(f, results)

SwitchOrRespond ==
    \/ \E L \in Langs : SwitchLanguage(L)
    \/ Responses

SpecCached == InitSched /\ [][SwitchOrRespond]_vars

User ==
    \/ \E text \in UserTexts : SendUser(text)
    \/ SendNoCity
    \/ \E bilingual \in BOOLEAN : ReplyOk(bilingual)
    \/ ReplyError
    \/ clearChat
    \/ \E i \in 1..Len(chats) : SelectChat(i)
    \/ \E i \in 1..Len(chats) : handleDeleteChat(i)
    \/ handleDeleteAll
    \/ \E i \in 1..Len(chats) : \E text \in RenameTexts : handleRenameSave(i, text)

SidebarLoop ==
    \/ \E lp \in BagToSet(sbLoops) : \E r \in TextResults : SidebarTranslateOk(lp, r)
    \/ \E lp \in BagToSet(sbLoops) : SidebarTranslateFail(lp)

Next == User \/ Scheduler \/ SidebarLoop

Spec == Init /\ [][Next]_vars

\* ------------------------------------------- direct calls of chatStorage
\* a first user message longer than TITLE_LEN, and one that differs from it
\* only behind the cut
LongText == [k \in 1..(TITLE_LEN + 1) |-> 4]
LongText2 == [k \in 1..(TITLE_LEN + 1) |-> IF k <= TITLE_LEN THEN 4 ELSE 5]

UserMsg(id, text) == Msg(id, "user", text, "en-US" :> text)
AssistantMsg(id) == Msg(id, "assistant", <<21>>, [l \in Langs |-> ReplyText(l)])

\* the message lists a caller saves
StoreInputs ==
    { <<>>,
      <<Greeting("en-US"), AssistantMsg(14)>>,
      <<Greeting("en-US"), UserMsg(10, <<1>>)>>,
      <<Greeting("en-US"), UserMsg(10, <<1>>), AssistantMsg(14)>>,
      <<Greeting("en-US"), UserMsg(20, LongText)>>,
      <<Greeting("ja-JP"), UserMsg(30, LongText2), AssistantMsg(34)>> }

StoreTitles == {<<1>>}               \* the titles a caller renames to

UnknownId == -1

StoredIds == {storage[i].id : i \in 1..Len(storage)}

Call(op, arg, out) ==
    /\ storage' = out.storage
    /\ call' = [op |-> op, arg |-> arg, before |-> storage, at |-> now, ret |-> out.ret]
    /\ event' = NoEvent
    /\ UNCHANGED <<viewVars, chats, sbLoops, now>>

CallAutoSave(msgs) ==
    /\ \/ Len(storage) < MaxChats
       \/ FindByTitle(storage, getChatTitle(msgs)) > 0
       \/ ~HasUser(msgs)
    /\ Call("autoSaveChat", msgs, autoSaveChat(msgs, storage, now))

CallDeleteChat(chatId) ==
    Call("deleteChat", chatId, deleteChat(chatId, storage, now))

CallDeleteAllChats ==
    Call("deleteAllChats", <<>>, deleteAllChats(storage))

CallRenameChat(chatId, newTitle) ==
    Call("renameChat", <<chatId, newTitle>>, renameChat(chatId, newTitle, storage, now))

Tick ==
    /\ now < StoreClock
    /\ now' = now + 1
    /\ event' = NoEvent
    /\ UNCHANGED <<viewVars, storage, chats, sbLoops, call>>

InitStore ==
    /\ language = DEFAULT_LANGUAGE
    /\ messages = <<Greeting(DEFAULT_LANGUAGE)>>
    /\ loading = FALSE
    /\ translatingRef = {}
    /\ translatingCountRef = 0
    /\ tasks = EmptyBag
    /\ batches = EmptyBag
    /\ storage = <<>>
    /\ chats = <<>>
    /\ sbLoops = EmptyBag
    /\ now = 0
    /\ call = NoCall
    /\ event = NoEvent

StoreCalls ==
    \/ \E msgs \in StoreInputs : CallAutoSave(msgs)
    \/ \E chatId \in StoredIds \cup {UnknownId} : CallDeleteChat(chatId)
    \/ CallDeleteAllChats
    \/ \E chatId \in StoredIds \cup {UnknownId} : \E title \in StoreTitles :
          CallRenameChat(chatId, title)
    \/ Tick

SpecStore == InitStore /\ [][StoreCalls]_vars

\* ------------------------------------------------------ storage failures
\* what localStorage does in a call: getItem throws, setItem/removeItem throw
StorageEnv(read, write) == [read |-> read, write |-> write]

Working == StorageEnv(FALSE, FALSE)
QuotaExceeded == StorageEnv(FALSE, TRUE)
Disabled == StorageEnv(TRUE, TRUE)

\* a call's result: the stored value afterwards, the value returned, and
\* whether the call ended by an exception
Result(st, ret, raised) == [storage |-> st, ret |-> ret, raised |-> raised]

\* the item as loadChatsFromStorage sees it: its catch turns a throwing
\* getItem into []
Seen(env, st) == IF env.read THEN <<>> ELSE st

\* try { body } catch { return fallback } without the catch clause
TryStore_NoCatch(env, writes, body, fallback, st) ==
    IF writes /\ env.write THEN Result(st, fallback, TRUE)
    ELSE Result(IF writes THEN body.storage ELSE st, body.ret, FALSE)

\* try { body } catch { return fallback }: body is the outcome of the try
\* block on the item as seen, writes tells whether it reaches setItem
TryStore(env, writes, body, fallback, st) ==
    IF writes /\ env.write THEN Result(st, fallback, FALSE)
    ELSE Result(IF writes THEN body.storage ELSE st, body.ret, FALSE)

loadChatsFromStorageIn(env, st, t) ==
    Result(st, loadChatsFromStorage(Seen(env, st), t), FALSE)

autoSaveChatIn(env, msgs, st, t) ==
    TryStore(env, HasUser(msgs), autoSaveChat(msgs, Seen(env, st), t),
             loadChatsFromStorage(Seen(env, st), t), st)

deleteChatIn(env, chatId, st, t) ==
    TryStore(env, TRUE, deleteChat(chatId, Seen(env, st), t),
             loadChatsFromStorage(Seen(env, st), t), st)

deleteAllChatsIn(env, st) ==
    TryStore(env, TRUE, deleteAllChats(st), <<>>, st)

renameChatIn(env, chatId, newTitle, st, t) ==
    TryStore(env, FindById(loadChatsFromStorage(Seen(env, st), t), chatId) # 0,
             renameChat(chatId, newTitle, Seen(env, st), t), <<>>, st)

\* getChatById: chats.find(c => c.id === chatId) || null, <<>> for null
getChatById(env, chatId, st, t) ==
    LET cs == loadChatsFromStorage(Seen(env, st), t)
        i == FindById(cs, chatId)
    IN  Result(st, IF i = 0 THEN <<>> ELSE <<cs[i]>>, FALSE)

\* the message lists a caller saves while storage may fail
FailInputs ==
    { <<Greeting("en-US"), AssistantMsg(14)>>,
      <<Greeting("en-US"), UserMsg(10, <<1>>), AssistantMsg(14)>>,
      <<Greeting("en-US"), UserMsg(20, <<2>>)>> }

\* storage is disabled for the whole session, or works and may be full
EnvsNow == IF call.env = Disabled THEN {Disabled} ELSE {Working, QuotaExceeded}

CallIn(env, op, arg, res) ==
    /\ storage' = res.storage
    /\ call' = [op |-> op, arg |-> arg, before |-> storage, at |-> now,
                ret |-> res.ret, env |-> env, raised |-> res.raised]
    /\ event' = NoEvent
    /\ UNCHANGED <<viewVars, chats, sbLoops, now>>

FailLoad ==
    \E env \in EnvsNow :
        CallIn(env, "loadChatsFromStorage", <<>>, loadChatsFromStorageIn(env, storage, now))

FailAutoSave ==
    \E env \in EnvsNow : \E msgs \in FailInputs :
        /\ \/ Len(storage) < MaxChats
           \/ FindByTitle(storage, getChatTitle(msgs)) > 0
           \/ ~HasUser(msgs)
        /\ CallIn(env, "autoSaveChat", msgs, autoSaveChatIn(env, msgs, storage, now))

FailDeleteChat ==
    \E env \in EnvsNow : \E chatId \in StoredIds \cup {UnknownId} :
        CallIn(env, "deleteChat", chatId, deleteChatIn(env, chatId, storage, now))

FailDeleteAllChats ==
    \E env \in EnvsNow :
        CallIn(env, "deleteAllChats", <<>>, deleteAllChatsIn(env, storage))

FailRenameChat ==
    \E env \in EnvsNow : \E chatId \in StoredIds \cup {UnknownId} :
        CallIn(env, "renameChat", chatId,
               renameChatIn(env, chatId, <<2>>, storage, now))

FailGetChatById ==
    \E env \in EnvsNow : \E chatId \in StoredIds \cup {UnknownId} :
        CallIn(env, "getChatById", chatId, getChatById(env, chatId, storage, now))

InitFail ==
    /\ language = DEFAULT_LANGUAGE
    /\ messages = <<Greeting(DEFAULT_LANGUAGE)>>
    /\ loading = FALSE
    /\ translatingRef = {}
    /\ translatingCountRef = 0
    /\ tasks = EmptyBag
    /\ batches = EmptyBag
    /\ storage = <<>>
    /\ chats = <<>>
    /\ sbLoops = EmptyBag
    /\ now = 0
    /\ call \in {[op |-> "none", env |-> e] : e \in {Working, Disabled}}
    /\ event = NoEvent

FailCalls ==
    \/ FailLoad
    \/ FailAutoSave
    \/ FailDeleteChat
    \/ FailDeleteAllChats
    \/ FailRenameChat
    \/ FailGetChatById

SpecFail == InitFail /\ [][FailCalls]_vars

\* ------------------------------------------------------- the record codec
\* stored entries: records as JSON.stringify writes them, and entries that
\* something else left in the item
GoodRaw(id, title, at) ==
    Stringify(<<[id |-> id, title |-> title, snippet |-> title,
                 messages |-> <<Greeting("en-US"), UserMsg(id + 1, title)>>,
                 meta |-> [version |-> 1, truncated |-> FALSE],
                 createdAt |-> at, updatedAt |-> at]>>)[1]

\* the properties of a stored record without its dates
WithoutDates(c) == [f \in {"id", "title", "snippet", "messages"} |-> c[f]]

RawEntries ==
    { GoodRaw(5, <<1>>, 0),
      GoodRaw(7, <<2>>, 1),
      \* createdAt is a string that is no date
      [GoodRaw(5, <<1>>, 0) EXCEPT !.createdAt = [k |-> "string", v |-> InvalidDate]],
      \* updatedAt is a number
      [GoodRaw(5, <<1>>, 0) EXCEPT !.updatedAt = [k |-> "number", v |-> 3]],
      WithoutDates(GoodRaw(7, <<2>>, 1)),
      \* an element of messages is null
      [GoodRaw(7, <<2>>, 1) EXCEPT !.messages = <<JSONNull>> \o @],
      JSONNull,
      [k |-> "number", v |-> 3],
      [k |-> "string", v |-> 4] }

\* the stored arrays: up to MaxChats entries
RawStores ==
    UNION {[1..n -> RawEntries] : n \in 0..MaxChats}

\* a stored record with every property in the form JSON.stringify gives it
WellFormed(c) ==
    /\ IsJSONObject(c)
    /\ {"id", "title", "snippet", "messages", "createdAt", "updatedAt"} \subseteq DOMAIN c
    /\ c.createdAt.k = "string" /\ c.createdAt.v # InvalidDate
    /\ c.updatedAt.k = "string" /\ c.updatedAt.v # InvalidDate
    /\ \A i \in 1..Len(c.messages) : IsJSONObject(c.messages[i])

\* a caller reads the collection
Decode ==
    /\ call' = [op |-> "loadChatsFromStorage", arg |-> <<>>, before |-> storage,
                at |-> now, ret |-> loadChatsFromStorage(storage, now)]
    /\ event' = NoEvent
    /\ UNCHANGED <<viewVars, storage, chats, sbLoops, now>>

\* a caller writes JSON.stringify of the list it last read and reads again
EncodeDecode ==
    /\ call.op \in {"loadChatsFromStorage", "roundTrip"}
    /\ storage' = Stringify(call.ret)
    /\ call' = [op |-> "roundTrip", arg |-> call.ret, before |-> storage,
                at |-> now, ret |-> loadChatsFromStorage(storage', now)]
    /\ event' = NoEvent
    /\ UNCHANGED <<viewVars, chats, sbLoops, now>>

InitCodec ==
    /\ language = DEFAULT_LANGUAGE
    /\ messages = <<Greeting(DEFAULT_LANGUAGE)>>
    /\ loading = FALSE
    /\ translatingRef = {}
    /\ translatingCountRef = 0
    /\ tasks = EmptyBag
    /\ batches = EmptyBag
    /\ storage \in RawStores
    /\ chats = <<>>
    /\ sbLoops = EmptyBag
    /\ now = 0
    /\ call = NoCall
    /\ event = NoEvent

CodecCalls == Decode \/ EncodeDecode \/ Tick

SpecCodec == InitCodec /\ [][CodecCalls]_vars

\* ------------------------------------------------ calls of batchTranslate
\* data.text of an HTTP-success response of /api/gemini, by what
\* batchTranslate makes of it
JSONString(text) == [k |-> "string", v |-> text]
JSONNumber(n) == [k |-> "number", v |-> <<n>>]

\* String(x) of a parsed JSON value: a string is kept, a number is written
\* in decimal digits
Digit(d) == 48 + d
String(x) ==
    IF x.k = "string" THEN x.v
    ELSE <<Digit(x.v[1])>>

ArrayItems == {JSONString(<<32>>), JSONString(Empty), JSONNumber(3)}

ArrayTexts == UNION {[1..n -> ArrayItems] : n \in 0..(MaxTexts + 1)}

ResponseTexts ==
    \* the text is a JSON array
    {[kind |-> "array", items |-> a] : a \in ArrayTexts}
    \* the text is prose or a code fence around a JSON array
    \cup {[kind |-> "wrapped", items |-> a] : a \in ArrayTexts}
    \* brackets around something that is no JSON; JSON that is no array;
    \* prose without brackets; no text at all
    \cup {[kind |-> k, items |-> <<>>] : k \in {"brackets", "value", "prose", "missing"}}

BatchInputs == UNION {[1..n -> {<<21>>, <<22>>}] : n \in 0..MaxTexts}

\* batchTranslate(texts, targetLanguage) given the response text
batchTranslate(texts, response) ==
    IF Len(texts) = 0 THEN <<>>
    ELSE IF response.kind \in {"array", "wrapped"}
         THEN [i \in 1..Len(response.items) |-> String(response.items[i])]
         ELSE texts

CallBatchTranslate(texts, response) ==
    /\ call' = [op |-> "batchTranslate", arg |-> texts, response |-> response,
                ret |-> batchTranslate(texts, response)]
    /\ event' = NoEvent
    /\ UNCHANGED <<viewVars, storage, chats, sbLoops, now>>

ApiCalls ==
    \E texts \in BatchInputs : \E response \in ResponseTexts :
        CallBatchTranslate(texts, response)

SpecApi == InitStore /\ [][ApiCalls]_vars


\* ------------------------------------------------- translation scheduler
\* the sub-bag of the on-demand invocations in state st
TasksIn(st) ==
    LET sel == {tk \in BagToSet(tasks) : tk.st = st}
    IN  [tk \in sel |-> tasks[tk]]

\* translateText calls issued by the on-demand path and not yet completed
PendingCalls == BagCardinality(TasksIn("pend"))

\* on-demand invocations (waiting or calling) for message id and language lang
TasksFor(id, lang) ==
    LET sel == {tk \in BagToSet(tasks) : tk.id = id /\ tk.lang = lang}
    IN  BagCardinality([tk \in sel |-> tasks[tk]])

PendingTasksFor(id, lang) ==
    LET sel == {tk \in BagToSet(tasks) : tk.id = id /\ tk.lang = lang /\ tk.st = "pend"}
    IN  BagCardinality([tk \in sel |-> tasks[tk]])

\* pending batchTranslate calls whose group holds message id for language lang
PendingBatchesFor(id, lang) ==
    LET sel == {f \in BagToSet(batches) :
                  f.lang = lang /\ BatchIndex(BatchOf(f), id) # 0}
    IN  BagCardinality([f \in sel |-> batches[f]])

\* every truthy translations entry of the view keeps its value in this step
EntriesKept ==
    \A i \in 1..Len(messages) : \A L \in Langs :
        (HasTranslation(messages[i], L) /\ i <= Len(messages')
            /\ messages'[i].id = messages[i].id)
        => /\ L \in DOMAIN messages'[i].translations
           /\ messages'[i].translations[L] = messages[i].translations[L]

\* C1: at most MAX_CONCURRENT_TRANSLATIONS = 3 translateText calls of the
\* on-demand path are pending in every reachable state, however many
\* messages request a translation at once.
C1_ConcurrencyBound == PendingCalls <= MAX_CONCURRENT_TRANSLATIONS

\* C1 witness: three calls are pending while a further request waits
C1_Witness ==
    /\ PendingCalls = MAX_CONCURRENT_TRANSLATIONS
    /\ BagCardinality(TasksIn("wait")) >= 1

\* C2: two ensureTranslation calls for the same (message, language) while
\* translations[language] is absent issue one translateText call: no pair
\* ever has two on-demand invocations (each issues exactly one call), be
\* the counter below the limit or at it.
C2_OneCallPerPair ==
    \A i \in 1..Len(messages) : \A L \in Langs : TasksFor(messages[i].id, L) <= 1

\* C3: no (message id, language) pair is covered by two pending outbound
\* calls, counting on-demand translateText and batchTranslate together.
C3_NoPairInFlightTwice ==
    \A i \in 1..Len(messages) : \A L \in Langs :
        PendingTasksFor(messages[i].id, L) + PendingBatchesFor(messages[i].id, L) <= 1

\* C4: the completion of a batch request does not change a translations
\* entry that was populated while the request was in flight.
C4_BatchKeepsEntries ==
    [][(language' = language /\ batches' # batches) => EntriesKept]_vars

\* C5: the completion of an on-demand call writes translations[L] only if
\* it is still absent; a populated entry keeps its value.
C5_OnDemandKeepsEntries ==
    [][(language' = language /\ batches' = batches) => EntriesKept]_vars

\* C6: on-demand and batch calls together, at most 3 outbound translation
\* calls are pending at any time.
C6_TotalFanOut ==
    PendingCalls + BagCardinality(batches) <= MAX_CONCURRENT_TRANSLATIONS

\* ------------------------------------------------------ conversation store
\* the last direct call was autoSaveChat with a list that holds a user message
SavedWithUser == call.op = "autoSaveChat" /\ HasUser(call.arg)

\* the stored list before and after the last direct call
ListBefore == loadChatsFromStorage(call.before, call.at)
ListAfter == loadChatsFromStorage(storage, call.at)

TitleCount(cs, title) == Cardinality({i \in 1..Len(cs) : cs[i].title = title})

\* C7: autoSaveChat with messages whose computed title equals the title of
\* a stored conversation replaces exactly that conversation in place: the
\* list keeps its length and every other position, the conversation keeps
\* id and createdAt, takes the saved messages and their snippet, and its
\* updatedAt is the save time, not earlier than before; and a save whose
\* title at most one stored conversation carries leaves exactly one
\* conversation with that title.
C7_DedupByTitle ==
    LET listBefore == ListBefore
        listAfter == ListAfter
    IN  SavedWithUser =>
          LET title == getChatTitle(call.arg)
              k == FindByTitle(listBefore, title)
          IN  /\ k > 0 =>
                    /\ Len(listAfter) = Len(listBefore)
                    /\ \A j \in 1..Len(listBefore) : j # k => listAfter[j] = listBefore[j]
                    /\ listAfter[k].id = listBefore[k].id
                    /\ listAfter[k].createdAt = listBefore[k].createdAt
                    /\ listAfter[k].title = title
                    /\ listAfter[k].messages = call.arg
                    /\ listAfter[k].snippet = getChatSnippet(call.arg)
                    /\ listAfter[k].updatedAt = call.at
                    /\ listAfter[k].updatedAt >= listBefore[k].updatedAt
                    /\ call.ret = listAfter
              /\ TitleCount(listBefore, title) <= 1 => TitleCount(listAfter, title) = 1

\* C7 witness: a later save replaced the second of two stored conversations
\* with a different message list of the same title
C7_Witness ==
    /\ SavedWithUser
    /\ Len(ListBefore) = 2
    /\ FindByTitle(ListBefore, getChatTitle(call.arg)) = 2
    /\ ListBefore[2].messages # call.arg
    /\ ListBefore[2].updatedAt < call.at

\* C8: autoSaveChat with a list that holds no user message writes nothing,
\* so the stored value is the one before the call, and returns the stored
\* list.
C8_NoPersistWithoutUser ==
    (call.op = "autoSaveChat" /\ ~HasUser(call.arg)) =>
        /\ storage = call.before
        /\ call.ret = loadChatsFromStorage(call.before, call.at)

\* C8 witness: a non-empty list of system and assistant messages was saved
\* while a conversation was stored
C8_Witness ==
    /\ call.op = "autoSaveChat"
    /\ ~HasUser(call.arg)
    /\ \E i \in 1..Len(call.arg) : IsAssistant(call.arg[i])
    /\ Len(call.before) > 0

\* every message a stored conversation keeps across this step (same
\* conversation id, same message id) keeps every translations key it has
StoredKeysKept ==
    \A i \in 1..Len(storage) : \A j \in 1..Len(storage') :
        storage[i].id = storage'[j].id =>
            \A a \in 1..Len(storage[i].messages) :
            \A b \in 1..Len(storage'[j].messages) :
                storage[i].messages[a].id = storage'[j].messages[b].id =>
                    DOMAIN storage[i].messages[a].translations
                        \subseteq DOMAIN storage'[j].messages[b].translations

\* C9: no durable write removes a language key from the stored translations
\* of a message of a conversation that stays stored.
C9_StoredTranslationsGrow == [][StoredKeysKept]_vars

\* a message the view keeps across this step keeps its original, unless its
\* id is in except
ViewOriginalsKept(except) ==
    \A i \in 1..Len(messages) : \A j \in 1..Len(messages') :
        (messages[i].id = messages'[j].id /\ messages[i].id \notin except)
        => messages'[j].original = messages[i].original

\* the same for a message a stored conversation keeps across this step
StoredOriginalsKept(except) ==
    \A i \in 1..Len(storage) : \A j \in 1..Len(storage') :
        storage[i].id = storage'[j].id =>
            \A a \in 1..Len(storage[i].messages) :
            \A b \in 1..Len(storage'[j].messages) :
                (storage[i].messages[a].id = storage'[j].messages[b].id
                    /\ storage[i].messages[a].id \notin except)
                => storage'[j].messages[b].original = storage[i].messages[a].original

\* C10 as stated: the original of a message with a given id never changes
\* after the message is created (language switches, translation
\* completions, saves and loads).
C10_OriginalImmutable ==
    [][ViewOriginalsKept({}) /\ StoredOriginalsKept({})]_vars

\* C10 amended: the original of every message other than the system
\* greeting (id 1) never changes after the message is created, in the view
\* and in the store.
C10_OriginalImmutableButGreeting ==
    [][ViewOriginalsKept({1}) /\ StoredOriginalsKept({1})]_vars

\* C10 witness: after a language switch a translation completion has
\* written its result to an assistant message of the view
C10_Witness ==
    /\ language # DEFAULT_LANGUAGE
    /\ \E i \in 1..Len(messages) :
          /\ messages[i].id # 1
          /\ IsAssistant(messages[i])
          /\ HasTranslation(messages[i], language)
          /\ messages[i].translations[language] \in TextResults \cup BatchResultVals
          /\ messages[i].original \notin TextResults \cup BatchResultVals

\* ------------------------------------------------------------ change event
\* C11: every step that changes the durable collection dispatches the
\* 'aerosense:chats-updated' event, and its count is the number of stored
\* conversations after the change.
C11_EventAfterMutation ==
    [][storage' # storage =>
          (event' # NoEvent /\ event'.count = Len(storage'))]_vars

\* ------------------------------------------------------- writers' copies
\* the Sidebar's copy, which handleRenameSave and the translation loop
\* write to storage, is the stored collection
SidebarCopyCurrent == chats = loadChatsFromStorage(storage, now)

\* the view's copy, which autoSaveChat writes over the stored conversation
\* of its title, holds every stored message it shares with that
\* conversation as it is stored
ViewCopyCurrent ==
    AutoSaves(messages) =>
      LET cs == loadChatsFromStorage(storage, now)
          k == FindByTitle(cs, getChatTitle(messages))
      IN  k > 0 =>
            \A a \in 1..Len(cs[k].messages) : \A b \in 1..Len(messages) :
                cs[k].messages[a].id = messages[b].id
                => cs[k].messages[a] = messages[b]

\* C12: no two read-mutate-write sequences overlap: whatever a writer is
\* about to write over the stored collection (the Sidebar its in-memory
\* list, the view its messages) is the content that is in storage, so no
\* write discards what another writer persisted in between.
C12_WritesFromStoredContent == SidebarCopyCurrent /\ ViewCopyCurrent

\* ------------------------------------------------------------ record codec
\* C13: a collection that loadChatsFromStorage returned, written as
\* JSON.stringify writes it and loaded again, is returned equal field for
\* field, also when a stored date string was no date.
C13_RoundTrip == call.op = "roundTrip" => call.ret = call.arg

\* C14: one malformed entry (null, a number, a string, a record with a null
\* message) does not cost the collection its other records: the load
\* returns the decoded form of every well-formed stored record.
C14_ValidRecordsKept ==
    call.op = "loadChatsFromStorage" =>
        \A i \in 1..Len(call.before) :
            WellFormed(call.before[i])
            => \E j \in 1..Len(call.ret) :
                  call.ret[j] = DecodeChat(call.before[i], call.at)

AllPopulated ==
    \A i \in 1..Len(messages) :
        (messages[i].type # "user" /\ messages[i].original # Empty)
        => HasTranslation(messages[i], language)

\* a populated entry for the display language is not written again
PopulatedKept ==
    \A i \in 1..Len(messages) :
        (HasTranslation(messages[i], language) /\ i <= Len(messages')
            /\ messages'[i].id = messages[i].id)
        => messages'[i].translations[language] = messages[i].translations[language]

\* C16: when every outbound call returns successfully, after a switch to L
\* every non-user message with a non-empty original eventually has
\* translations[L], and the entry, once written, is not written again.
C16_PopulatedOnce ==
    /\ []<>AllPopulated
    /\ [][language' = language => PopulatedKept]_vars

\* C17: after the switch from en-US to ja-JP of the loaded conversation with
\* five assistant messages lacking ja-JP, one batchTranslate call is issued
\* (one flow, whose single group holds the five messages), and once it has
\* returned r the text shown for the message at position k is r[k].
BatchShown(r) ==
    \A k \in 1..5 : getMessageText(messages[k + 2], "ja-JP") = r[k]

C17_OneBatchThenShown ==
    (language = "ja-JP" /\ Ids(messages) = Ids(BatchMessages)) =>
        /\ BagCardinality(batches) <= 1
        /\ \A f \in BagToSet(batches) :
              f.i = 0 /\ Len(f.items) = 5 /\ Len(f.items) <= BATCH
        /\ batches = EmptyBag => \E r \in BatchResults(5) : BatchShown(r)

\* C18: in every state, for every message whose translations[language] entry
\* is present, running the on-demand algorithm changes nothing of the
\* scheduling state (no invocation, no call), and the batch algorithm does
\* not select the message.
Cached(m, lang) == lang \in DOMAIN m.translations

C18_CachedPairsCostNothing ==
    \A i \in 1..Len(messages) : \A lang \in Langs :
        Cached(messages[i], lang) =>
            /\ ensureTranslation(messages[i], lang, CurSched) = CurSched
            /\ \A k \in 1..Len(ToTranslate(messages, lang)) :
                  ToTranslate(messages, lang)[k].id # messages[i].id

\* C19: in every step that completes the translateText call of an on-demand
\* invocation tk, the counter goes down by exactly one (so that a slot is
\* free for a waiter), the id of tk leaves the in-flight set, and the
\* messages are either unchanged (the failure is not cached) or differ by
\* the response written for the pair of tk.
Completes(tk) ==
    tk.st = "pend" /\ CopiesIn(tk, tasks') < CopiesIn(tk, tasks)

Returns(f) == CopiesIn(f, batches') < CopiesIn(f, batches)

AssignedAt(i, f, r) ==
    LET batch == BatchOf(f)
        m == messages[i]
    IN  IF \E k \in 1..Len(batch) : batch[k].id = m.id
        THEN \E k \in 1..Len(batch) :
                /\ batch[k].id = m.id
                /\ messages'[i].id = m.id
                /\ messages'[i].type = m.type
                /\ messages'[i].original = m.original
                /\ DOMAIN messages'[i].translations = DOMAIN m.translations \cup {f.lang}
                /\ messages'[i].translations[f.lang] = r[k]
                /\ \A l \in DOMAIN m.translations \ {f.lang} :
                      messages'[i].translations[l] = m.translations[l]
        ELSE messages'[i] = m

C21_SameLengthOrOriginals ==
    call.op = "batchTranslate" =>
        /\ Len(call.ret) = Len(call.arg)
        /\ \A idx \in 1..Len(call.arg) : idx \in DOMAIN call.ret
        /\ call.response.kind \notin {"array", "wrapped"} => call.ret = call.arg

\* C22: at most one batchTranslate call is pending at any time, and the
\* group of every pending call holds at most BATCH messages, in the order
\* they have in the view.
InViewOrder(batch) ==
    \A j, k \in 1..Len(batch) :
        j < k =>
            \A a, b \in 1..Len(messages) :
                (messages[a].id = batch[j].id /\ messages[b].id = batch[k].id) => a < b

C22_OneBatchCallPending ==
    /\ BagCardinality(batches) <= 1
    /\ \A f \in BagToSet(batches) :
          Len(BatchOf(f)) <= BATCH /\ InViewOrder(BatchOf(f))

\* C23: in every step in which the batchTranslate call of a flow returns or
\* rejects, the messages are unchanged (a rejected call writes nothing) or
\* carry a response merged for that group, and when the flow has a later
\* group the call for it is pending afterwards.
NextGroup(f) == Flow(f.lang, f.items, f.i + BATCH)

C23_FailedBatchSkipped ==
    [][\A f \in BagToSet(batches) :
          Returns(f) =>
              /\ \/ messages' = messages
                 \/ \E r \in BatchResults(Len(BatchOf(f))) :
                       messages' = BatchMerge(messages, f, r)
              /\ f.i + BATCH < Len(f.items) =>
                    CopiesIn(NextGroup(f), batches') > CopiesIn(NextGroup(f), batches)]_vars

\* the call for the first group was rejected and the call for the second
\* group returned: the first BATCH replies have no ja-JP entry, the last
\* reply has the one of the response
C23_Witness ==
    /\ batches = EmptyBag
    /\ language = "ja-JP"
    /\ \A k \in 1..BATCH : ~HasTranslation(messages[k + 2], "ja-JP")
    /\ \E r \in BatchResults(1) :
          /\ "ja-JP" \in DOMAIN messages[BATCH + 3].translations
          /\ messages[BATCH + 3].translations["ja-JP"] = r[1]

\* C24: for every message of the view and every language, getMessageText is
\* the translations entry of that language when the entry is present and
\* not the empty string, and the message's original in every other case.
C24_DisplayResolver ==
    \A i \in 1..Len(messages) : \A lang \in Langs :
        getMessageText(messages[i], lang) =
            IF lang \in DOMAIN messages[i].translations
               /\ messages[i].translations[lang] # Empty
            THEN messages[i].translations[lang]
            ELSE messages[i].original

\* C25: autoSaveChat with messages that hold a user message and whose
\* computed title no stored conversation carries puts exactly one new
\* conversation, with that title and those messages, at the head of the
\* list, before the stored conversations in their order and unchanged; a
\* save into the empty store leaves one conversation with a non-empty
\* title; and a save of a chat whose title is stored adds none.
C25_CreatedAtHead ==
    LET listBefore == ListBefore
        listAfter == ListAfter
    IN  SavedWithUser =>
          LET title == getChatTitle(call.arg)
              k == FindByTitle(listBefore, title)
          IN  /\ k = 0 =>
                    /\ Len(listAfter) = Len(listBefore) + 1
                    /\ listAfter[1].title = title
                    /\ listAfter[1].messages = call.arg
                    /\ listAfter[1].snippet = getChatSnippet(call.arg)
                    /\ listAfter[1].createdAt = call.at
                    /\ \A j \in 1..Len(listBefore) : listAfter[j + 1] = listBefore[j]
                    /\ call.ret = listAfter
              /\ listBefore = <<>> => (Len(listAfter) = 1 /\ listAfter[1].title # Empty)
              /\ k > 0 => Len(listAfter) = Len(listBefore)

\* C25 witness: a conversation was created while another one was stored
C25_Witness ==
    /\ SavedWithUser
    /\ FindByTitle(ListBefore, getChatTitle(call.arg)) = 0
    /\ Len(ListBefore) >= 1
    /\ Len(ListAfter) = Len(ListBefore) + 1

\* C26: after deleteChat(id) the stored list is the list before the call
\* without the conversations of that id, the others unchanged and in their
\* order, and it is the list returned; for an id no conversation has, the
\* returned list is the list before the call.
Deleted == call.op = "deleteChat"

C26_DeleteById ==
    LET listBefore == ListBefore
        listAfter == ListAfter
    IN  Deleted =>
          LET Other(c) == c.id # call.arg
          IN  /\ listAfter = SelectSeq(listBefore, Other)
              /\ \A i \in 1..Len(listAfter) : listAfter[i].id # call.arg
              /\ call.ret = listAfter
              /\ (\A i \in 1..Len(listBefore) : listBefore[i].id # call.arg) =>
                    call.ret = listBefore

\* C26 witness: the id deleted was carried by both stored conversations
\* (created at the same instant), and both are gone
C26_Witness ==
    /\ Deleted
    /\ Len(ListBefore) = 2
    /\ ListBefore[1].id = call.arg
    /\ ListBefore[2].id = call.arg
    /\ ListAfter = <<>>

\* C27: renameChat(id, newTitle) for a stored id leaves the list as it was
\* but for the title and updatedAt of the first conversation of that id,
\* which become newTitle and the time of the call, and returns that
\* conversation; for an id that is not stored it returns null and the
\* stored value is the one before the call.
Renamed == call.op = "renameChat"

C27_RenameTouchesTitleOnly ==
    LET listBefore == ListBefore
        listAfter == ListAfter
    IN  Renamed =>
          LET k == FindById(listBefore, call.arg[1])
          IN  /\ k > 0 =>
                    /\ Len(listAfter) = Len(listBefore)
                    /\ \A j \in 1..Len(listBefore) : j # k => listAfter[j] = listBefore[j]
                    /\ listAfter[k].title = call.arg[2]
                    /\ listAfter[k].updatedAt = call.at
                    /\ listAfter[k].id = listBefore[k].id
                    /\ listAfter[k].createdAt = listBefore[k].createdAt
                    /\ listAfter[k].messages = listBefore[k].messages
                    /\ listAfter[k].snippet = listBefore[k].snippet
                    /\ call.ret = <<listAfter[k]>>
              /\ k = 0 => (call.ret = <<>> /\ storage = call.before)

\* C27 witness: the second of two stored conversations got a new title at
\* a later time than its last save
C27_Witness ==
    /\ Renamed
    /\ Len(ListBefore) = 2
    /\ FindById(ListBefore, call.arg[1]) = 2
    /\ ListBefore[2].title # call.arg[2]
    /\ ListBefore[2].snippet # call.arg[2]
    /\ ListBefore[2].updatedAt < call.at
    /\ ListAfter[2].title = call.arg[2]

\* C28: from deleteAllChats until the next call that writes, the stored
\* collection is empty: loadChatsFromStorage returns the empty list, and
\* getChatById returns null for every id stored before and for any other.
DeletedAll == call.op = "deleteAllChats"

C28_DeleteAllEmpties ==
    DeletedAll =>
        /\ storage = <<>>
        /\ loadChatsFromStorage(storage, now) = <<>>
        /\ \A id \in {call.before[i].id : i \in 1..Len(call.before)} \cup {UnknownId} :
              getChatById(Working, id, storage, now).ret = <<>>

\* C28 witness: two conversations were stored when deleteAllChats was
\* called, and the clock has moved on since
C28_Witness ==
    /\ DeletedAll
    /\ Len(call.before) = 2
    /\ now > call.at

\* C29: in every state the stored conversations have pairwise distinct ids.
C29_UniqueIds ==
    \A i, j \in 1..Len(storage) : i # j => storage[i].id # storage[j].id

\* C30: a step that completes the translateText call of an on-demand
\* invocation and does not switch the language starts no new invocation for
\* the same message and language: the invocations for the pair are one
\* fewer afterwards.
C30_NoAutomaticRetry ==
    [][\A tk \in BagToSet(tasks) :
          (Completes(tk) /\ language' = language) =>
              TasksFor(tk.id, tk.lang)' = TasksFor(tk.id, tk.lang) - 1]_vars

\* ---------------------------------------------- saves of long conversations
\* a conversation with one reply and a last reply whose text is a run of
\* characters chosen so that the serialized messages have the given length
SizeBase(text) ==
    <<Greeting("en-US"), UserMsg(10, text), AssistantMsg(14)>>

Filled(msgs, size) ==
    LET rest == messageSize(msgs \o <<Msg(16, "assistant", Empty, NoTranslations)>>)
    IN  msgs \o <<Msg(16, "assistant", <<rest - size>>, NoTranslations)>>

SizeInputs ==
    { <<Greeting("en-US")>> }
      \cup { SizeBase(x) : x \in UserTexts }
      \cup { Filled(SizeBase(x), n) :
                x \in UserTexts, n \in {MAX_MESSAGE_SIZE, MAX_MESSAGE_SIZE + 1} }

SizeCalls ==
    \/ \E msgs \in SizeInputs : CallAutoSave(msgs)
    \/ \E chatId \in StoredIds : CallDeleteChat(chatId)
    \/ Tick

SpecSize == InitStore /\ [][SizeCalls]_vars

\* C31: after every save of a list with a user message, the stored
\* conversation of that title has meta.truncated true exactly when the
\* serialized length of the saved messages exceeds 500,000, and its stored
\* messages are the whole saved list, over the ceiling or not; the flag of
\* every stored conversation agrees with the length of its stored messages.
C31_SizePolicy ==
    SavedWithUser =>
      LET k == FindByTitle(storage, getChatTitle(call.arg))
      IN  /\ k > 0
          /\ storage[k].meta.truncated = (messageSize(call.arg) > 500000)
          /\ storage[k].messages = call.arg
          /\ ListAfter[k].meta.truncated = storage[k].meta.truncated
          /\ ListAfter[k].messages = call.arg
          /\ \A j \in 1..Len(ListAfter) :
                ListAfter[j].meta.truncated
                    = (messageSize(ListAfter[j].messages) > 500000)

\* C31 witness: a conversation stored with 500,001 characters and the flag
\* set was saved again with exactly 500,000 characters and the flag is
\* cleared, while another conversation over the ceiling is stored in full
C31_Witness ==
    /\ SavedWithUser
    /\ messageSize(call.arg) = 500000
    /\ Len(ListBefore) = 2 /\ Len(ListAfter) = 2
    /\ \E k \in 1..2 :
          /\ ListBefore[k].title = getChatTitle(call.arg)
          /\ ListBefore[k].meta.truncated
          /\ ~ListAfter[k].meta.truncated
          /\ ListAfter[k].messages = call.arg
          /\ ListAfter[3 - k].meta.truncated
          /\ messageSize(ListAfter[3 - k].messages) = 500001

\* C32: in every reachable state the outstanding counter is between 0 and
\* MAX_CONCURRENT_TRANSLATIONS and equals the number of on-demand
\* invocations that acquired a slot and have not finished, a message id is
\* in translatingRef exactly when an on-demand call for that message is
\* pending, and with no on-demand call pending the counter is 0 and the
\* set is empty.
C32_SchedulerBookkeeping ==
    /\ translatingCountRef \in 0..MAX_CONCURRENT_TRANSLATIONS
    /\ translatingCountRef = PendingCalls
    /\ translatingRef = {tk.id : tk \in DOMAIN TasksIn("pend")}
    /\ PendingCalls = 0 => (translatingCountRef = 0 /\ translatingRef = {})

\* ------------------------------------------ waiting for a slot, with fairness
\* the conversation of InitSched with BatchEvents user events left
InitWait ==
    /\ language = "en-US"
    /\ messages = SchedMessages
    /\ loading = FALSE
    /\ translatingRef = {}
    /\ translatingCountRef = 0
    /\ tasks = EmptyBag
    /\ batches = EmptyBag
    /\ storage = autoSaveChat(SchedMessages, <<>>, EarlierDate).storage
    /\ now = MaxClock - BatchEvents
    /\ chats = loadChatsFromStorage(storage, now)
    /\ sbLoops = EmptyBag
    /\ call = NoCall
    /\ event = NoEvent

\* the timer of a polling loop fires, an outbound call settles
Settlements ==
    \/ \E tk \in BagToSet(tasks) : StartAfterWait(tk)
    \/ \E tk \in BagToSet(tasks) : \E r \in TextResults : TranslateTextOk(tk, r)
    \/ \E tk \in BagToSet(tasks) : TranslateTextFail(tk)
    \/ \E f \in BagToSet(batches) :
          \E results \in [1..Len(BatchOf(f)) -> BatchResultVals] : BatchOk(f, results)
    \/ \E f \in BagToSet(batches) : BatchFail(f)

SwitchOrSettle ==
    \/ \E L \in Langs : SwitchLanguage(L)
    \/ Settlements

\* the timer of a waiting invocation eventually fires, and a pending
\* translateText that does not return a text is eventually rejected
TimerFires == \E tk \in BagToSet(tasks) : StartAfterWait(tk)
CallSettles == \E tk \in BagToSet(tasks) : TranslateTextFail(tk)

SpecWait ==
    InitWait /\ [][SwitchOrSettle]_vars /\ WF_vars(TimerFires) /\ WF_vars(CallSettles)

\* the invocations that can wait in the polling loop
Waiters ==
    {Task(SchedMessages[i].id, L, SchedMessages[i].original, "wait") :
        i \in 1..Len(SchedMessages), L \in Langs}

\* C33: when pending calls settle and timers fire (weak fairness of
\* both), every invocation suspended in the polling loop eventually
\* leaves it (again and again no invocation is waiting, so none waits for
\* ever); an invocation leaves the loop only by taking a slot and
\* issuing its translateText call; and the counter is never at
\* MAX_CONCURRENT_TRANSLATIONS while no on-demand call is pending.
C33_SlotWaitLiveness ==
    /\ []<>(TasksIn("wait") = EmptyBag)
    /\ [][\A w \in Waiters :
            CopiesIn(w, tasks') < CopiesIn(w, tasks) =>
               /\ translatingCountRef < MAX_CONCURRENT_TRANSLATIONS
               /\ translatingCountRef' = translatingCountRef + 1
               /\ CopiesIn([w EXCEPT !.st = "pend"], tasks')
                     = CopiesIn([w EXCEPT !.st = "pend"], tasks) + 1]_vars
    /\ [](translatingCountRef = MAX_CONCURRENT_TRANSLATIONS => PendingCalls > 0)

\* C33 witness: the call of the last reply, whose invocation found the
\* three slots taken by the greeting and the replies before it, is pending
C33_Witness ==
    /\ language = "ja-JP"
    /\ CopiesIn(Task(SchedMessages[Len(SchedMessages)].id, "ja-JP",
                      SchedMessages[Len(SchedMessages)].original, "pend"), tasks) = 1
    /\ SchedMessages[Len(SchedMessages)].id \in translatingRef

\* ------------------------------------------------- where results are written
\* the step changes the view at most in translations[lang] of the messages
\* whose id is in ids
WrittenOnlyAt(ids, lang) ==
    /\ Len(messages') = Len(messages)
    /\ \A i \in 1..Len(messages) :
          IF messages[i].id \in ids
          THEN /\ messages'[i].id = messages[i].id
               /\ messages'[i].type = messages[i].type
               /\ messages'[i].original = messages[i].original
               /\ DOMAIN messages'[i].translations \ {lang}
                     = DOMAIN messages[i].translations \ {lang}
               /\ \A l \in DOMAIN messages[i].translations \ {lang} :
                     messages'[i].translations[l] = messages[i].translations[l]
          ELSE messages'[i] = messages[i]

C35_UserMessagesUntouched ==
    [][/\ \A i \in 1..Len(messages') : \A L \in Langs :
             \A id \in {messages'[i].id} :
               IsUser(messages'[i]) =>
                 /\ TasksFor(id, L)' <= TasksFor(id, L)
                 /\ \A f \in BagToSet(batches') :
                       (f.i = 0 /\ CopiesIn(f, batches') > CopiesIn(f, batches)) =>
                           \A k \in 1..Len(f.items) : f.items[k].id # id
       /\ ((\E tk \in BagToSet(tasks) : Completes(tk))
              \/ (\E f \in BagToSet(batches) : Returns(f))) =>
             /\ Len(messages') = Len(messages)
             /\ \A i \in 1..Len(messages) :
                   IsUser(messages[i]) => messages'[i] = messages[i]]_vars

\* C35 witness: ja-JP is selected, a user message typed under en-US has no
\* ja-JP entry, and the calls the switch started for the other messages
\* have returned
C35_Witness ==
    /\ language = "ja-JP"
    /\ tasks = EmptyBag /\ batches = EmptyBag
    /\ \E i \in 1..Len(messages) :
          /\ IsUser(messages[i])
          /\ ~HasTranslation(messages[i], "ja-JP")
    /\ \E i \in 1..Len(messages) :
          /\ ~IsUser(messages[i])
          /\ HasTranslation(messages[i], "ja-JP")
          /\ messages[i].translations["ja-JP"] \in TextResults \cup BatchResultVals

\* --------------------------------------------------------- titles and renames
\* C36: after any sequence of autoSaveChat, deleteChat, deleteAllChats and
\* rename calls from the empty store no two stored conversations have the
\* same title.
C36_TitlesUnique ==
    \A i \in 1..Len(storage) : \A j \in 1..Len(storage) :
        i # j => storage[i].title # storage[j].title

\* a stored conversation whose title is no longer the one computed from its
\* messages: it was renamed
RenamedAt(cs, k) == cs[k].title # getChatTitle(cs[k].messages)

\* msgs continues the message list of the stored conversation k
ContinuesAt(cs, k, msgs) ==
    /\ Len(cs[k].messages) <= Len(msgs)
    /\ SubSeq(msgs, 1, Len(cs[k].messages)) = cs[k].messages

\* C37: a save of the message list of a renamed stored conversation (the
\* stored list, possibly with messages appended) updates that conversation
\* and adds none: the number of stored conversations is the same after the
\* save.
C37_RenamedStaysOne ==
    SavedWithUser =>
      \A k \in 1..Len(ListBefore) :
        (RenamedAt(ListBefore, k) /\ ContinuesAt(ListBefore, k, call.arg)) =>
            /\ Len(ListAfter) = Len(ListBefore)
            /\ ListAfter[k].messages = call.arg

\* ------------------------------------------- the Sidebar's translation loop
\* two conversations of an earlier session whose first user message came
\* with the English text only
TitledMessages(k) ==
    <<Greeting("en-US"),
      Msg(EarlierId + 100 * k, "user", <<k>>, "en-US" :> <<k>>),
      Msg(EarlierId + 100 * k + 4, "assistant", <<21>>, [l \in Langs |-> ReplyText(l)])>>

TitledStore ==
    autoSaveChat(TitledMessages(2),
                 autoSaveChat(TitledMessages(1), <<>>, EarlierDate).storage,
                 EarlierDate + 1).storage

\* the application after mount with those conversations in the store
InitSidebar ==
    /\ language = DEFAULT_LANGUAGE
    /\ messages = <<Greeting(DEFAULT_LANGUAGE)>>
    /\ loading = FALSE
    /\ translatingRef = {}
    /\ translatingCountRef = 0
    /\ tasks = EmptyBag
    /\ batches = EmptyBag
    /\ storage = TitledStore
    /\ now = MaxClock - SchedEvents
    /\ chats = loadChatsFromStorage(storage, now)
    /\ sbLoops = EmptyBag
    /\ call = NoCall
    /\ event = NoEvent

SwitchOrSidebar ==
    \/ \E L \in Langs : SwitchLanguage(L)
    \/ \E i \in 1..Len(chats) : handleDeleteChat(i)
    \/ \E i \in 1..Len(chats) : \E text \in RenameTexts : handleRenameSave(i, text)
    \/ \E lp \in BagToSet(sbLoops) : \E r \in TextResults : SidebarTranslateOk(lp, r)
    \/ \E lp \in BagToSet(sbLoops) : SidebarTranslateFail(lp)

SpecSidebar == InitSidebar /\ [][SwitchOrSidebar]_vars

\* the call of loop lp returns in this step
SidebarReturns(lp) ==
    language' = language /\ CopiesIn(lp, sbLoops') < CopiesIn(lp, sbLoops)

\* C38: when the translateText call of a Sidebar loop returns after the
\* language was switched again, the step changes neither the in-memory
\* chats nor the stored value and the loop ends without a further request
\* (one pending call fewer); the return of any call leaves at most as many
\* pending Sidebar calls as before, each loop having one; and at most one
\* loop, that of the selected language, is not stale.
C38_StaleTitlesDropped ==
    /\ [][\A lp \in BagToSet(sbLoops) :
            SidebarReturns(lp) =>
              /\ BagCardinality(sbLoops') <= BagCardinality(sbLoops)
              /\ ~lp.mounted =>
                    /\ chats' = chats
                    /\ storage' = storage
                    /\ sbLoops' = sbLoops (-) SetToBag({lp})]_vars
    /\ [](\A lp \in BagToSet(sbLoops) :
             lp.mounted => (lp.lang = language /\ sbLoops[lp] = 1))

\* C38 witness: after a switch to ja-JP and a switch back the call of the
\* ja-JP loop has returned: no loop is left and neither stored conversation
\* has a ja-JP entry for its first user message
C38_Witness ==
    /\ language = "en-US"
    /\ now = MaxClock - SchedEvents + 2
    /\ sbLoops = EmptyBag
    /\ storage = TitledStore
    /\ \A i \in 1..Len(storage) : ~HasTranslation(storage[i].messages[2], "ja-JP")

\* ------------------------------------------------------- decode defaults
\* stored messages: as JSON.stringify writes them, of a type the
\* application does not know, and with properties missing or of another
\* JSON type
StoredMessages ==
    << [id |-> 1, type |-> "system", original |-> <<11>>,
        translations |-> "en-US" :> <<11>>, timestamp |-> [k |-> "string", v |-> EarlierDate]],
       [id |-> 10, type |-> "user", original |-> <<1>>,
        translations |-> "en-US" :> <<1>>, timestamp |-> [k |-> "number", v |-> 3]],
       [id |-> 14, type |-> "assistant", original |-> <<21>>,
        translations |-> "en-US" :> <<21>>],
       [id |-> 18, type |-> "tool", original |-> <<21>>,
        translations |-> NoTranslations, timestamp |-> JSONNull],
       [original |-> <<1>>, timestamp |-> [k |-> "string", v |-> 1]],
       [id |-> 20, type |-> "User"] >>

DefaultEntries ==
    { [id |-> 5, title |-> <<1>>, snippet |-> <<21>>, messages |-> StoredMessages,
       createdAt |-> [k |-> "string", v |-> EarlierDate],
       updatedAt |-> [k |-> "string", v |-> 0]],
      [messages |-> SubSeq(StoredMessages, 4, 6)],
      [id |-> 7, title |-> <<2>>, createdAt |-> [k |-> "number", v |-> 3],
       updatedAt |-> JSONNull],
      GoodRaw(7, <<2>>, 1) }

DefaultStores == UNION {[1..n -> DefaultEntries] : n \in 0..MaxChats}

InitDefaults ==
    /\ language = DEFAULT_LANGUAGE
    /\ messages = <<Greeting(DEFAULT_LANGUAGE)>>
    /\ loading = FALSE
    /\ translatingRef = {}
    /\ translatingCountRef = 0
    /\ tasks = EmptyBag
    /\ batches = EmptyBag
    /\ storage \in DefaultStores
    /\ chats = <<>>
    /\ sbLoops = EmptyBag
    /\ now = 0
    /\ call = NoCall
    /\ event = NoEvent

\* the timestamps loadChatsFromStorage gives the messages it returns
DecodeStamps ==
    /\ call' = [op |-> "timestamps", arg |-> <<>>, before |-> storage, at |-> now,
                ret |-> [i \in 1..Len(storage) |->
                          [j \in 1..Len(Get(storage[i], "messages", <<>>)) |->
                              DecodeTimestamp(storage[i].messages[j], now)]]]
    /\ event' = NoEvent
    /\ UNCHANGED <<viewVars, storage, chats, sbLoops, now>>

DefaultCalls == Decode \/ DecodeStamps \/ Tick

SpecDefaults == InitDefaults /\ [][DefaultCalls]_vars

\* the stored form of a date is missing or is not a string
NoDateString(x, f) == f \notin DOMAIN x \/ x[f].k # "string"

\* C39: loadChatsFromStorage returns one conversation per stored record and
\* one message per stored message; a message's type is the stored type
\* when that is 'user', 'assistant' or 'system' and 'system' for any other
\* or missing value; a missing id, original, title or snippet is the empty
\* string; and a createdAt, updatedAt or timestamp that is missing or not
\* a string is the time of the load.
C39_DecodeDefaults ==
    /\ call.op = "loadChatsFromStorage" =>
          /\ Len(call.ret) = Len(call.before)
          /\ \A i \in 1..Len(call.before) :
                LET c == call.before[i]
                    d == call.ret[i]
                    ms == Get(c, "messages", <<>>)
                IN  /\ "id" \notin DOMAIN c => d.id = EmptyId
                    /\ "title" \notin DOMAIN c => d.title = Empty
                    /\ "snippet" \notin DOMAIN c => d.snippet = Empty
                    /\ NoDateString(c, "createdAt") => d.createdAt = call.at
                    /\ NoDateString(c, "updatedAt") => d.updatedAt = call.at
                    /\ Len(d.messages) = Len(ms)
                    /\ \A j \in 1..Len(ms) :
                          /\ d.messages[j].type \in {"user", "assistant", "system"}
                          /\ ("type" \in DOMAIN ms[j]
                                /\ ms[j].type \in {"user", "assistant", "system"})
                                => d.messages[j].type = ms[j].type
                          /\ ("type" \notin DOMAIN ms[j]
                                \/ ms[j].type \notin {"user", "assistant", "system"})
                                => d.messages[j].type = "system"
                          /\ "id" \notin DOMAIN ms[j] => d.messages[j].id = EmptyId
                          /\ "original" \notin DOMAIN ms[j] => d.messages[j].original = Empty
    /\ call.op = "timestamps" =>
          \A i \in 1..Len(call.before) :
            \A j \in 1..Len(Get(call.before[i], "messages", <<>>)) :
              NoDateString(call.before[i].messages[j], "timestamp")
                  => call.ret[i][j] = call.at

\* C39 witness: a load at a later instant returned a message of the stored
\* type 'tool' as a system message, a message without id and type, and a
\* conversation without title and dates
C39_Witness ==
    /\ call.op = "loadChatsFromStorage"
    /\ call.at > 0
    /\ \E i \in 1..Len(call.before) :
          /\ "title" \notin DOMAIN call.before[i]
          /\ "createdAt" \notin DOMAIN call.before[i]
          /\ call.ret[i].title = Empty
          /\ call.ret[i].createdAt = call.at
          /\ call.before[i].messages[1].type = "tool"
          /\ call.ret[i].messages[1].type = "system"
          /\ "id" \notin DOMAIN call.before[i].messages[2]
          /\ call.ret[i].messages[2].type = "system"
          /\ call.ret[i].messages[2].id = EmptyId

====
